---- MODULE Spec2Model ----
(***************************************************************************)
(* A model of imgconv.py: has_extension, images_to_pdf, adjust_widths and  *)
(* the command line driver main.  File names are sequences of one-letter   *)
(* strings, an image is a record of its origin, size, mode and whether it  *)
(* still holds an open file, and Python's double arithmetic in             *)
(* adjust_widths is modelled bit by bit.                                   *)
(***************************************************************************)
EXTENDS Integers, Sequences, FiniteSets, TLC

\* ------------------------------------------------------------------ bounds
MaxFiles == 2      \* longest source list given to images_to_pdf / main
MaxFilters == 2    \* longest filter list given to images_to_pdf
MaxLen == 2        \* longest image list given directly to adjust_widths
MaxDim == 2        \* widths and heights 1..MaxDim (plus the values below)

\* ------------------------------------------------------------- file names
UpperChars == <<"A","B","C","D","E","F","G","H","I","J","K","L","M",
                "N","O","P","Q","R","S","T","U","V","W","X","Y","Z">>
LowerChars == <<"a","b","c","d","e","f","g","h","i","j","k","l","m",
                "n","o","p","q","r","s","t","u","v","w","x","y","z">>

\* str.lower() on one character
LowerChar(c) ==
    IF \E i \in 1..Len(UpperChars) : UpperChars[i] = c
    THEN LowerChars[CHOOSE i \in 1..Len(UpperChars) : UpperChars[i] = c]
    ELSE c

\* str.lower()
lower(s) == [i \in 1..Len(s) |-> LowerChar(s[i])]

\* str.endswith(ext)
endswith(s, ext) ==
    /\ Len(ext) <= Len(s)
    /\ SubSeq(s, Len(s) - Len(ext) + 1, Len(s)) = ext

\* has_extension(filename, exts): lower-case the name, then any suffix matches
has_extension(filename, exts) ==
    LET name == lower(filename)
    IN  \E i \in 1..Len(exts) : endswith(name, exts[i])

EXT_HEIC == <<".","h","e","i","c">>
EXT_HEIF == <<".","h","e","i","f">>
EXT_PDF  == <<".","p","d","f">>

\* --------------------------------------------------- double arithmetic
\* A positive double is [sig |-> 53 bits, most significant first and set,
\* exp |-> e]: its value is sig (as a binary integer) * 2^(exp - 52).
\* Arithmetic on the 52 fraction bits goes through 4 limbs of 13 bits, so
\* that every intermediate integer stays below 2^31 for operands below 2^15.
MantBits == 53
LimbBits == 13
NumLimbs == 4

RECURSIVE Pow2(_)
Pow2(n) == IF n = 0 THEN 1 ELSE 2 * Pow2(n - 1)

\* the integer a short bit string (most significant first) denotes
RECURSIVE BitsToInt(_)
BitsToInt(bits) ==
    IF bits = <<>> THEN 0
    ELSE 2 * BitsToInt(SubSeq(bits, 1, Len(bits) - 1)) + bits[Len(bits)]

\* the bits of a non-negative integer, most significant first, no leading 0
RECURSIVE IntToBits(_)
IntToBits(n) ==
    IF n = 0 THEN <<>> ELSE Append(IntToBits(n \div 2), n % 2)

\* the LimbBits bits of a limb
LimbToBits(x) == [i \in 1..LimbBits |-> (x \div Pow2(LimbBits - i)) % 2]

\* the bits of a sequence of limbs
RECURSIVE LimbsToBits(_)
LimbsToBits(limbs) ==
    IF limbs = <<>> THEN <<>>
    ELSE LimbToBits(Head(limbs)) \o LimbsToBits(Tail(limbs))

\* the limbs of the fraction bits sig[2..53]
FractionLimbs(sig) ==
    [k \in 1..NumLimbs |->
        BitsToInt(SubSeq(sig, 2 + LimbBits * (k - 1), 1 + LimbBits * k))]

\* bits + 1: same length, or one longer when every bit was set
IncBits(bits) ==
    IF \A i \in 1..Len(bits) : bits[i] = 1
    THEN [i \in 1..Len(bits) + 1 |-> IF i = 1 THEN 1 ELSE 0]
    ELSE LET k == CHOOSE i \in 1..Len(bits) :
                      /\ bits[i] = 0
                      /\ \A j \in i + 1..Len(bits) : bits[j] = 1
         IN  [i \in 1..Len(bits) |->
                 IF i < k THEN bits[i] ELSE IF i = k THEN 1 ELSE 0]

\* round-to-nearest-even of the bit string `bits` (leading bit set, at
\* least MantBits long) to MantBits bits; `sticky` says whether nonzero
\* bits lie beyond the string.  exp is the exponent of bits[1].
RoundToDouble(bits, sticky, exp) ==
    LET keep == SubSeq(bits, 1, MantBits)
        rest == SubSeq(bits, MantBits + 1, Len(bits))
        half == rest # <<>> /\ rest[1] = 1
        more == sticky \/ \E i \in 2..Len(rest) : rest[i] = 1
        up   == half /\ (more \/ keep[MantBits] = 1)
        inc  == IncBits(keep)
    IN  IF ~up THEN [sig |-> keep, exp |-> exp]
        ELSE IF Len(inc) = MantBits THEN [sig |-> inc, exp |-> exp]
        ELSE [sig |-> SubSeq(inc, 1, MantBits), exp |-> exp + 1]

\* long division: n more quotient limbs of r / d (0 <= r < d) appended to
\* acc, and the remainder left after them
RECURSIVE DivLimbs(_, _, _, _)
DivLimbs(r, d, n, acc) ==
    IF n = 0 THEN [limbs |-> acc, rem |-> r]
    ELSE DivLimbs((r * Pow2(LimbBits)) % d, d, n - 1,
                  Append(acc, (r * Pow2(LimbBits)) \div d))

\* the exponent e with 2^e <= a / b < 2^(e+1), for 0 < a <= b
RECURSIVE ExpOfRatio(_, _)
ExpOfRatio(a, b) ==
    IF a >= b THEN 0 ELSE ExpOfRatio(2 * a, b) - 1

\* Python's a / b on ints 0 < a <= b: the correctly rounded double
TrueDiv(a, b) ==
    LET e     == ExpOfRatio(a, b)
        n0    == a * Pow2(0 - e)                   \* b <= n0 < 2b
        q     == DivLimbs(n0 - b, b, NumLimbs, <<>>)
        guard == IF 2 * q.rem >= b THEN 1 ELSE 0
    IN  RoundToDouble(<<1>> \o LimbsToBits(q.limbs) \o <<guard>>,
                      2 * q.rem - guard * b # 0, e)

\* h * limbs by schoolbook multiplication from the low end: the carry out
\* of the top limb and the product's limbs
RECURSIVE MulLimbs(_, _)
MulLimbs(h, limbs) ==
    IF limbs = <<>> THEN [carry |-> 0, limbs |-> <<>>]
    ELSE LET low == MulLimbs(h, Tail(limbs))
             t   == h * Head(limbs) + low.carry
         IN  [carry |-> t \div Pow2(LimbBits),
              limbs |-> <<t % Pow2(LimbBits)>> \o low.limbs]

\* h * sig as a bit string with its leading bit set
MulBits(h, sig) ==
    LET low == MulLimbs(h, FractionLimbs(sig))
    IN  IntToBits(h * sig[1] + low.carry) \o LimbsToBits(low.limbs)

\* Python's h * x for an int h > 0 and a double x: the rounded product
IntTimesDouble(h, x) ==
    LET prod == MulBits(h, x.sig)
    IN  RoundToDouble(prod, FALSE, x.exp + (Len(prod) - MantBits))

\* Python's round(x) on a positive double: nearest integer, ties to even
PyRound(x) ==
    IF x.exp < -1 THEN 0
    ELSE IF x.exp = -1
         THEN IF \E i \in 2..MantBits : x.sig[i] = 1 THEN 1 ELSE 0
    ELSE LET int  == BitsToInt(SubSeq(x.sig, 1, x.exp + 1))
             frac == SubSeq(x.sig, x.exp + 2, MantBits)
             half == frac # <<>> /\ frac[1] = 1
             more == \E i \in 2..Len(frac) : frac[i] = 1
         IN  IF ~half THEN int
             ELSE IF more \/ int % 2 = 1 THEN int + 1
             ELSE int

\* ------------------------------------------------------------ the inputs
\* Source files on disk: name, whether the decoder can read it, its size.
SourceFiles ==
    { [name |-> <<"a",".","j","p","g">>,     ok |-> TRUE,  w |-> 3, h |-> 2],
      [name |-> <<"b",".","P","N","G">>,     ok |-> TRUE,  w |-> 2, h |-> 3],
      [name |-> <<"c",".","H","E","I","C">>, ok |-> TRUE,  w |-> 4, h |-> 3],
      [name |-> <<"e",".","j","p","g">>,     ok |-> FALSE, w |-> 1, h |-> 1] }

\* Destination names given to main
OutNames ==
    { <<"o",".","p","d","f">>, <<"O",".","P","d","F">>,
      <<"o",".","p","n","g">>, <<"p","d","f",".","j","p","g">> }

\* Destination names given to images_to_pdf
OutFiles == { <<"o",".","p","d","f">>, <<"o",".","p","n","g">> }

\* Sequences over S of length lo..hi
SeqsOf(S, lo, hi) == UNION { [1..n -> S] : n \in lo..hi }

\* The callbacks a caller passes as filters: the module's adjust_widths,
\* main's grayscale lambda, and two callbacks of the caller's own (one
\* drops the first image, one raises).
Callbacks == {"adjust_widths", "grayscale", "tail", "raise"}

\* filters=None, or a list of callbacks
FilterArgs ==
    { [given |-> FALSE, list |-> <<>>] } \cup
    { [given |-> TRUE, list |-> l] : l \in SeqsOf(Callbacks, 0, MaxFilters) }

\* **kwargs
KwargChoices ==
    { {},
      { [key |-> "resolution", val |-> "72"] },
      { [key |-> "save_all", val |-> "False"] },
      { [key |-> "append_images", val |-> "[]"],
        [key |-> "resolution", val |-> "72"] } }

\* Image sizes for direct calls of adjust_widths
Widths  == (1..MaxDim) \cup {7, 10}
Heights == (1..MaxDim) \cup {45}

\* An in-memory image: src is its position in the list it was loaded
\* from, fp the file handle it holds open (0: none).
Img(src, w, h, mode, fp) ==
    [src |-> src, w |-> w, h |-> h, mode |-> mode, fp |-> fp]

ImageLists ==
    { [i \in 1..n |-> Img(i, ws[i], hs[i], "RGB", 0)] :
        <<n, ws, hs>> \in
            UNION { {n} \X [1..n -> Widths] \X [1..n -> Heights] :
                    n \in 0..MaxLen } }

NoDoc == [path |-> <<>>, format |-> "none", save_all |-> FALSE,
          pages |-> <<>>, options |-> {}]

NoArgs == [src |-> <<>>, dst |-> <<>>, quality |-> "None",
           grayscale |-> FALSE, adjust_widths |-> FALSE]

NoFilters == [given |-> FALSE, list |-> <<>>]

\* the exceptions this program raises for a bad call (lines 49, 52, 149, 158)
UsageErrors == {"ValueError", "TypeError"}

\* --------------------------------------------------------------- the state
VARIABLES
    pc,        \* where the running call stands
    entry,     \* the function the caller entered
    args,      \* main: the parsed command line
    files, outfile, filters, kwargs,   \* images_to_pdf: its parameters
    images,    \* images_to_pdf: the local list; adjust_widths: its argument
    im,        \* main: the single image
    stack,     \* images_to_pdf: the ExitStack's contexts, in entry order
    fds,       \* file handles open now
    result,    \* "none" while running, "ok", or the exception raised
    ret,       \* adjust_widths called directly: the list it returned
    doc,       \* what has been written to the destination
    events,    \* history: loads, filter calls, saves, closes in order
    calls      \* history: each filter call's callback, argument and return

vars == <<pc, entry, args, files, outfile, filters, kwargs, images, im,
          stack, fds, result, ret, doc, events, calls>>

Range(s) == { s[i] : i \in 1..Len(s) }

Ev(op, i) == [op |-> op, i |-> i]

\* ------------------------------------------------------- adjust_widths
\* a faulty min_width: max() in place of min()
MinWidthMax(imgs) ==
    CHOOSE m \in { imgs[i].w : i \in 1..Len(imgs) } :
        \A i \in 1..Len(imgs) : m >= imgs[i].w

\* min(width for width, height in (im.size for im in images))
min_width(imgs) ==
    CHOOSE m \in { imgs[i].w : i \in 1..Len(imgs) } :
        \A i \in 1..Len(imgs) : m <= imgs[i].w

\* a faulty new_height: integer division in place of round()
new_height_floor(height, minw, width) == (height * minw) \div width

\* round(height * (min_width / width))
new_height(height, minw, width) ==
    PyRound(IntTimesDouble(height, TrueDiv(minw, width)))

\* image.resize(new_size, resample=resample): a new image, no file behind it
resize(image, new_size) ==
    Img(image.src, new_size[1], new_size[2], image.mode, 0)

\* a faulty adjust_widths: an empty list is returned as it is
adjust_widths_or_empty(imgs) ==
    IF imgs = <<>> THEN [err |-> "none", val |-> <<>>]
    ELSE LET m == min_width(imgs)
         IN  [err |-> "none",
              val |-> [i \in 1..Len(imgs) |->
                          resize(imgs[i],
                                 <<m, new_height(imgs[i].h, m, imgs[i].w)>>)]]

\* adjust_widths(images): the list returned, or the exception min() raises
\* on an empty sequence
adjust_widths(imgs) ==
    IF imgs = <<>> THEN [err |-> "ValueError", val |-> <<>>]
    ELSE LET m == min_width(imgs)
         IN  [err |-> "none",
              val |-> [i \in 1..Len(imgs) |->
                          resize(imgs[i],
                                 <<m, new_height(imgs[i].h, m, imgs[i].w)>>)]]

\* lambda images: [im.convert('L') for im in images]
grayscale(imgs) ==
    [err |-> "none",
     val |-> [i \in 1..Len(imgs) |->
                 Img(imgs[i].src, imgs[i].w, imgs[i].h, "L", 0)]]

\* callback(images) for each callback of Callbacks
CallFilter(callback, imgs) ==
    CASE callback = "adjust_widths" -> adjust_widths(imgs)
      [] callback = "grayscale"     -> grayscale(imgs)
      [] callback = "tail"          ->
            [err |-> "none", val |-> SubSeq(imgs, 2, Len(imgs))]
      [] callback = "raise"         -> [err |-> "FilterError", val |-> <<>>]

\* ------------------------------------------------------- images_to_pdf
\* a faulty validate: the reserved keys are looked at first
validate_reserved_first(fs, kw) ==
    IF \E o \in kw : o.key \in {"append_images", "save_all"} THEN "NameError"
    ELSE IF fs = <<>> THEN "ValueError"
    ELSE "ok"

\* Lines 48-53: the exception raised before the with block, or "ok".  The
\* f-string of line 52 names `keys`, which is not defined, so building the
\* TypeError's message raises NameError instead.
validate(fs, kw) ==
    IF fs = <<>> THEN "ValueError"
    ELSE IF \E o \in kw : o.key \in {"append_images", "save_all"}
         THEN "NameError"
    ELSE "ok"

\* a faulty ExitStackClose: only the last context entered is closed
ExitStackDropLast(open, st) ==
    IF st = <<>> THEN open ELSE open \ {st[Len(st)]}

\* ExitStack.__exit__: every context entered is closed
ExitStackClose(open, st) == open \ Range(st)

\* the body of images_to_pdf up to the with block
Enter(fs, out, fl, kw) ==
    /\ files' = fs /\ outfile' = out /\ filters' = fl /\ kwargs' = kw
    /\ images' = <<>> /\ stack' = <<>>
    /\ LET v == validate(fs, kw)
       IN  IF v = "ok"
           THEN pc' = "load" /\ result' = "none"
           ELSE pc' = "done" /\ result' = v
    /\ UNCHANGED <<im, fds, ret, doc, events, calls>>

\* an exception leaves the with block: the stack is unwound
Unwind(exc) ==
    /\ pc' = "done"
    /\ result' = exc
    /\ fds' = ExitStackClose(fds, stack)
    /\ stack' = <<>>

\* the position after the for loop of lines 56-61 / after a filter
AfterFilter(k) ==
    IF filters.given /\ k < Len(filters.list) THEN "filter" ELSE "save"

\* a caller calls images_to_pdf(files, outfile, filters, **kwargs)
CallImagesToPdf ==
    /\ pc = "idle"
    /\ \E fs \in SeqsOf(SourceFiles, 0, MaxFiles), out \in OutFiles,
          fl \in FilterArgs, kw \in KwargChoices :
          Enter(fs, out, fl, kw)
    /\ entry' = "images_to_pdf"
    /\ UNCHANGED args

\* one turn of the for loop of lines 56-61
LoadNext ==
    /\ pc = "load"
    /\ LET i    == Len(images) + 1
           file == files[i]
           heif == has_extension(file.name, <<EXT_HEIC, EXT_HEIF>>)
       IN  /\ events' = Append(events, Ev(IF heif THEN "load_heif" ELSE "open", i))
           /\ IF ~file.ok
              THEN /\ Unwind("DecodeError")
                   /\ UNCHANGED images
              ELSE /\ images' = Append(images,
                         Img(i, file.w, file.h, "RGB", IF heif THEN 0 ELSE i))
                   /\ stack' = IF heif THEN stack ELSE Append(stack, i)
                   /\ result' = "none"
                   /\ fds' = IF heif THEN fds ELSE fds \cup {i}
                   /\ pc' = IF i < Len(files) THEN "load" ELSE AfterFilter(0)
    /\ UNCHANGED <<entry, args, files, outfile, filters, kwargs, im, ret,
                   doc, calls>>

\* a faulty FilterInput: every callback gets the list as first loaded
FilterInputOriginal(k) == [i \in 1..Len(files) |->
    Img(i, files[i].w, files[i].h, "RGB",
        IF has_extension(files[i].name, <<EXT_HEIC, EXT_HEIF>>) THEN 0 ELSE i)]

\* the list the k-th callback is called with: the current value of images
FilterInput(k) == images

\* one turn of the for loop of lines 63-64: images = callback(images)
ApplyFilter ==
    /\ pc = "filter"
    /\ LET k        == Len(calls) + 1
           callback == filters.list[k]
           r        == CallFilter(callback, FilterInput(k))
       IN  /\ events' = Append(events, Ev("filter", k))
           /\ calls' = Append(calls, [f |-> callback, inp |-> FilterInput(k),
                                      err |-> r.err, out |-> r.val])
           /\ IF r.err # "none"
              THEN /\ Unwind(r.err)
                   /\ UNCHANGED images
              ELSE /\ images' = r.val
                   /\ pc' = AfterFilter(k)
                   /\ UNCHANGED <<stack, fds, result>>
    /\ UNCHANGED <<entry, args, files, outfile, filters, kwargs, im, ret, doc>>

\* a faulty SaveFormat: the format is left to the extension of outfile
SaveFormatByExtension(out) ==
    IF has_extension(out, <<EXT_PDF>>) THEN "PDF" ELSE "by_extension"

\* the format argument of the save call of line 65
SaveFormat(out) == "PDF"

\* the pages of the document: images[0], then append_images=images[1:]
Pages(imgs) == <<imgs[1]>> \o SubSeq(imgs, 2, Len(imgs))

\* lines 65-66: images[0].save(...), then the with block ends
Save ==
    /\ pc = "save"
    /\ IF images = <<>>
       THEN /\ Unwind("IndexError")
            /\ UNCHANGED <<doc, events>>
       ELSE /\ events' = Append(events, Ev("save", 0))
            /\ \/ /\ doc' = [path |-> outfile, format |-> SaveFormat(outfile),
                             save_all |-> TRUE, pages |-> Pages(images),
                             options |-> kwargs]
                  /\ Unwind("ok")
               \/ /\ doc' \in {doc, [NoDoc EXCEPT !.path = outfile,
                                                  !.format = "truncated"]}
                  /\ Unwind("EncodeError")
    /\ UNCHANGED <<entry, args, files, outfile, filters, kwargs, images, im,
                   ret, calls>>

\* ---------------------------------------------------------------- main
\* lines 150-154: the filter list main builds
main_filters(a) ==
    (IF a.adjust_widths THEN <<"adjust_widths">> ELSE <<>>) \o
    (IF a.grayscale THEN <<"grayscale">> ELSE <<>>)

\* a faulty is_pdf: the comparison keeps the case
is_pdf_exact(dst) == endswith(dst, EXT_PDF)

\* line 147
is_pdf(dst) == has_extension(dst, <<EXT_PDF>>)

\* lines 147-149 and 156-159: the usage error main raises, or "ok"
main_check(a) ==
    IF is_pdf(a.dst)
    THEN IF a.quality # "None" THEN "ValueError" ELSE "ok"
    ELSE IF Len(a.src) # 1 THEN "ValueError" ELSE "ok"

\* main() run on a parsed command line (src has at least one name: nargs='+')
CallMain ==
    /\ pc = "idle"
    /\ entry' = "main"
    /\ \E src \in SeqsOf(SourceFiles, 1, MaxFiles), dst \in OutNames,
          q \in {"None", "90"}, g \in BOOLEAN, aw \in BOOLEAN :
          LET a == [src |-> src, dst |-> dst, quality |-> q,
                    grayscale |-> g, adjust_widths |-> aw]
          IN  /\ args' = a
              /\ IF main_check(a) # "ok"
                 THEN /\ pc' = "done" /\ result' = main_check(a)
                      /\ UNCHANGED <<files, outfile, filters, kwargs, images,
                                     im, stack, fds, ret, doc, events, calls>>
                 ELSE IF is_pdf(dst)
                      THEN Enter(src, dst,
                                 [given |-> TRUE, list |-> main_filters(a)], {})
                      ELSE /\ pc' = "main_load" /\ result' = "none"
                           /\ UNCHANGED <<files, outfile, filters, kwargs,
                                          images, im, stack, fds, ret, doc,
                                          events, calls>>

\* lines 160-164: load_heif(src), or PIL.Image.open(src) entering the with
MainOpen ==
    /\ pc = "main_load"
    /\ LET file == args.src[1]
           heif == has_extension(file.name, <<EXT_HEIF, EXT_HEIC>>)
       IN  /\ events' = Append(events, Ev(IF heif THEN "load_heif" ELSE "open", 1))
           /\ IF ~file.ok
              THEN /\ pc' = "done" /\ result' = "DecodeError"
                   /\ UNCHANGED <<im, fds>>
              ELSE /\ im' = Img(1, file.w, file.h, "RGB", IF heif THEN 0 ELSE 1)
                   /\ fds' = IF heif THEN fds ELSE fds \cup {1}
                   /\ pc' = IF heif THEN "main_convert" ELSE "main_with"
                   /\ UNCHANGED result
    /\ UNCHANGED <<entry, args, files, outfile, filters, kwargs, images,
                   stack, ret, doc, calls>>

\* a faulty WithExit: the file stays open
WithExitKeep(open, fp) == open

\* the with statement of line 164 ends: the image's file is closed
WithExit(open, fp) == open \ {fp}

\* line 165, inside the with block: im.load(), then the block ends
MainLoad ==
    /\ pc = "main_with"
    /\ fds' = WithExit(fds, im.fp)
    /\ im' = [im EXCEPT !.fp = 0]
    /\ pc' = "main_convert"
    /\ UNCHANGED <<entry, args, files, outfile, filters, kwargs, images,
                   stack, result, ret, doc, events, calls>>

\* lines 166-167
MainConvert ==
    /\ pc = "main_convert"
    /\ im' = IF args.grayscale THEN [im EXCEPT !.mode = "L"] ELSE im
    /\ pc' = "main_save"
    /\ UNCHANGED <<entry, args, files, outfile, filters, kwargs, images,
                   stack, fds, result, ret, doc, events, calls>>

\* lines 168-169: im.save(args.dst, quality=quality); the encoder is the
\* one Pillow finds for dst's extension
MainSave ==
    /\ pc = "main_save"
    /\ events' = Append(events, Ev("save", 0))
    /\ pc' = "done"
    /\ \/ /\ doc' = [path |-> args.dst, format |-> "by_extension",
                     save_all |-> FALSE, pages |-> <<im>>,
                     options |-> { [key |-> "quality",
                                    val |-> IF args.quality # "None"
                                            THEN args.quality ELSE "75"] }]
          /\ result' = "ok"
       \/ /\ doc' \in {doc, [NoDoc EXCEPT !.path = args.dst,
                                          !.format = "truncated"]}
          /\ result' = "EncodeError"
    /\ UNCHANGED <<entry, args, files, outfile, filters, kwargs, images, im,
                   stack, fds, ret, calls>>

\* ------------------------------------------- adjust_widths called directly
\* a caller calls adjust_widths(images) with a list of its own
CallAdjustWidths ==
    /\ pc = "idle"
    /\ entry' = "adjust_widths"
    /\ images' \in ImageLists
    /\ pc' = "adjust"
    /\ UNCHANGED <<args, files, outfile, filters, kwargs, im, stack, fds,
                   result, ret, doc, events, calls>>

\* lines 84-93: the call returns a list or raises
RunAdjustWidths ==
    /\ pc = "adjust"
    /\ LET r == adjust_widths(images)
       IN  /\ result' = IF r.err = "none" THEN "ok" ELSE r.err
           /\ ret' = r.val
    /\ pc' = "done"
    /\ UNCHANGED <<entry, args, files, outfile, filters, kwargs, images, im,
                   stack, fds, doc, events, calls>>

\* ------------------------------------------------------ specifications
Idle ==
    /\ args = NoArgs
    /\ files = <<>> /\ outfile = <<>> /\ filters = NoFilters /\ kwargs = {}
    /\ im = Img(0, 0, 0, "none", 0)
    /\ stack = <<>> /\ fds = {}
    /\ result = "none" /\ ret = <<>>
    /\ doc = NoDoc
    /\ events = <<>> /\ calls = <<>>

\* the program before any call
Init ==
    /\ pc = "idle" /\ entry = "none" /\ images = <<>>
    /\ Idle

Next ==
    \/ CallImagesToPdf
    \/ LoadNext
    \/ ApplyFilter
    \/ Save
    \/ CallMain
    \/ MainOpen
    \/ MainLoad
    \/ MainConvert
    \/ MainSave
    \/ CallAdjustWidths
    \/ RunAdjustWidths

Spec == Init /\ [][Next]_vars

\* adjust_widths as a function of its argument: every list of ImageLists
InitAdjust ==
    /\ pc = "adjust" /\ entry = "adjust_widths" /\ images \in ImageLists
    /\ Idle

NextAdjust == RunAdjustWidths

SpecAdjust == InitAdjust /\ [][NextAdjust]_vars

\* --------------------------------------------------------------- claims
\* the running call is images_to_pdf, entered directly or from main
InPdf == entry = "images_to_pdf" \/ (entry = "main" /\ files # <<>>)

\* **kwargs holds a key images_to_pdf reserves
Reserved == \E o \in kwargs : o.key \in {"append_images", "save_all"}

\* nothing has been classified, opened, decoded, filtered or written
Untouched == events = <<>> /\ calls = <<>> /\ fds = {} /\ doc = NoDoc

\* the list the for loop of images_to_pdf builds from files
Loaded ==
    [i \in 1..Len(files) |->
        Img(i, files[i].w, files[i].h, "RGB",
            IF has_extension(files[i].name, <<EXT_HEIC, EXT_HEIF>>)
            THEN 0 ELSE i)]

\* dst names a PDF: its last four characters are ".pdf" in any case
PdfNamed(dst) ==
    /\ Len(dst) >= 4
    /\ dst[Len(dst) - 3] = "."
    /\ dst[Len(dst) - 2] \in {"p", "P"}
    /\ dst[Len(dst) - 1] \in {"d", "D"}
    /\ dst[Len(dst)] \in {"f", "F"}

Abs(x) == IF x < 0 THEN 0 - x ELSE x

\* C1: images_to_pdf, given a non-empty source list and an option named
\* append_images or save_all, fails with a usage error (ValueError or
\* TypeError) before any source is classified, opened or decoded and before
\* anything is written.
C1_ReservedKeyUsageError ==
    (entry = "images_to_pdf" /\ files # <<>> /\ Reserved)
        => (pc = "done" /\ result \in UsageErrors /\ Untouched)

\* C2: images_to_pdf, given an empty source list, fails with a usage error
\* whatever the filters and options are, and opens no file, calls no filter
\* and writes nothing.
C2_EmptyListUsageError ==
    (entry = "images_to_pdf" /\ files = <<>>)
        => (pc = "done" /\ result \in UsageErrors /\ Untouched)

C2_Witness ==
    /\ entry = "images_to_pdf" /\ files = <<>> /\ pc = "done"
    /\ Reserved /\ filters.given /\ filters.list # <<>>
    /\ result = "ValueError"

\* C3: whenever images_to_pdf has returned or raised, no file handle that it
\* opened is still open.
C3_HandlesClosedOnExit ==
    (InPdf /\ pc = "done") => (fds = {} /\ stack = <<>>)

\* the second source failed to decode after the first was opened
C3_Witness ==
    /\ entry = "images_to_pdf" /\ pc = "done" /\ result = "DecodeError"
    /\ Len(events) = 2 /\ events[1] = Ev("open", 1) /\ events[2].op = "open"
    /\ fds = {}

\* C4 as stated: no decoder-opened handle is open when the filter chain
\* starts or when encoding begins, in images_to_pdf and in main's
\* single-image path.
C4_NoHandleAtFilterOrSave ==
    pc \in {"filter", "save", "main_convert", "main_save"} => fds = {}

\* C4 as amended: main's single-image path has closed the handle before the
\* conversion and the save; images_to_pdf keeps the handle of every
\* non-HEIF source open while the filters and the save run, and has closed
\* them all when it is done.
C4_HandlesHeldUntilExit ==
    /\ pc \in {"main_convert", "main_save"} => fds = {}
    /\ pc \in {"filter", "save"} =>
           /\ fds = { i \in 1..Len(files) : Loaded[i].fp # 0 }
           /\ fds = Range(stack)
    /\ (InPdf /\ pc = "done") => fds = {}

C4_Witness ==
    /\ pc = "save" /\ calls # <<>> /\ Cardinality(fds) = 2

\* C5: every source is loaded, in order, before the first filter is called;
\* the filters are called once each in list order; the first receives the
\* loaded list and each later one the list its predecessor returned; the
\* document is written after the last filter, its pages the last list
\* returned (the loaded list when there are no filters).
C5_LoadThenFiltersThenEncode ==
    InPdf =>
        /\ \A j \in 1..Len(events) :
              /\ events[j].op \in {"open", "load_heif"} => events[j].i = j
              /\ events[j].op = "filter" =>
                    /\ events[j].i = j - Len(files)
                    /\ events[j].i \in 1..Len(filters.list)
                    /\ events[j].i <= Len(calls)
                    /\ calls[events[j].i].f = filters.list[events[j].i]
              /\ events[j].op = "save" =>
                    /\ j = Len(files) + Len(filters.list) + 1
                    /\ Len(calls) = Len(filters.list)
        /\ \A k \in 1..Len(calls) :
              calls[k].inp = IF k = 1 THEN Loaded ELSE calls[k - 1].out
        /\ doc.format = "PDF" =>
              LET final == IF calls = <<>> THEN Loaded
                           ELSE calls[Len(calls)].out
              IN  /\ doc.pages = final
                  /\ \A i \in 1..Len(final) : doc.pages[i] = final[i]

C5_Witness ==
    /\ InPdf /\ pc = "done" /\ result = "ok"
    /\ Len(calls) = 2 /\ calls[1].out # calls[1].inp
    /\ calls[2].out # calls[2].inp
    /\ Len(doc.pages) = 2 /\ doc.pages[1].src = 1

\* C6: adjust_widths on a non-empty list returns a list of the same length,
\* output i made from input i, every output as wide as the narrowest
\* input, and leaves its argument as it was.
C6_SameLengthOrderMinWidth ==
    [][(pc = "adjust" /\ images # <<>>) =>
          /\ images' = images
          /\ result' = "ok"
          /\ Len(ret') = Len(images)
          /\ \A i \in 1..Len(images) :
                /\ ret'[i].src = images[i].src
                /\ ret'[i].mode = images[i].mode
                /\ \A j \in 1..Len(images) : ret'[i].w <= images[j].w
                /\ \E j \in 1..Len(images) : ret'[i].w = images[j].w]_vars

C6_Witness ==
    /\ entry = "adjust_widths" /\ pc = "done" /\ result = "ok"
    /\ Len(images) = 2 /\ images[1].w > images[2].w
    /\ Len(ret) = 2 /\ ret[1].w = images[2].w

\* C7: every output height of adjust_widths is a nearest integer to the
\* exact height * minWidth / width (so within one unit of rounding of it);
\* an image as wide as the narrowest keeps its height, and a single image
\* comes back with its size unchanged.
C7_HeightRounded ==
    (entry = "adjust_widths" /\ pc = "done" /\ result = "ok") =>
        /\ \A i \in 1..Len(images), m \in Widths :
              (/\ \A j \in 1..Len(images) : m <= images[j].w
               /\ \E j \in 1..Len(images) : m = images[j].w)
              => /\ 2 * Abs(ret[i].h * images[i].w - images[i].h * m)
                        <= images[i].w
                 /\ images[i].w = m => ret[i].h = images[i].h
        /\ Len(images) = 1 =>
              /\ ret[1].w = images[1].w
              /\ ret[1].h = images[1].h

\* 45 * (7 / 10) is 31.499999999999996 in double arithmetic
C7_Witness ==
    /\ entry = "adjust_widths" /\ pc = "done" /\ result = "ok"
    /\ \E i \in 1..Len(images) :
          /\ images[i].w = 10 /\ images[i].h = 45
          /\ ret[i].w = 7 /\ ret[i].h = 31

\* C8 as stated: images_to_pdf writes with the encoder of outfile's
\* extension, and an outfile that does not name a PDF yields an encode
\* error.
C8_EncoderByExtension ==
    (entry = "images_to_pdf" /\ pc = "done") =>
        /\ ~PdfNamed(outfile) => result # "ok"
        /\ result = "ok" => doc.options = kwargs

\* C8 as amended: images_to_pdf always writes with the PDF encoder, whatever
\* outfile's extension, to outfile, as a multi-page document, and forwards
\* the caller's options unchanged.
C8_AlwaysPdfEncoder ==
    (InPdf /\ pc = "done" /\ result = "ok") =>
        /\ doc.format = "PDF"
        /\ doc.path = outfile
        /\ doc.save_all
        /\ doc.options = kwargs

C8_Witness ==
    /\ entry = "images_to_pdf" /\ pc = "done" /\ result = "ok"
    /\ ~PdfNamed(outfile) /\ doc.format = "PDF" /\ kwargs # {}

\* C9: adjust_widths given an empty list raises a usage error and returns
\* no list, called directly or as a filter after a filter that returned an
\* empty list; images_to_pdf then fails with that error and writes nothing.
C9_EmptyAdjustWidthsRaises ==
    /\ (entry = "adjust_widths" /\ pc = "done" /\ images = <<>>)
          => (result \in UsageErrors /\ ret = <<>>)
    /\ \A k \in 1..Len(calls) :
          (calls[k].f = "adjust_widths" /\ calls[k].inp = <<>>)
          => /\ calls[k].err \in UsageErrors
             /\ k = Len(calls)
             /\ pc = "done" /\ result = calls[k].err
             /\ doc = NoDoc

C9_Witness ==
    /\ InPdf /\ Len(calls) = 2
    /\ calls[1].f = "tail" /\ calls[1].out = <<>>
    /\ calls[2].f = "adjust_widths" /\ calls[2].inp = <<>>

\* C10: main picks its mode from dst's extension alone (".pdf" in any case:
\* images_to_pdf; anything else: the single-image path), and a PDF dst with
\* --quality, or another dst with more or fewer than one source, raises a
\* usage error before any source is opened or decoded or anything written.
C10_MainValidatesFirst ==
    (entry = "main" /\ pc # "idle") =>
        /\ ((PdfNamed(args.dst) /\ args.quality # "None")
             \/ (~PdfNamed(args.dst) /\ Len(args.src) # 1))
           => (pc = "done" /\ result \in UsageErrors /\ Untouched
               /\ files = <<>>)
        /\ PdfNamed(args.dst) =>
              pc \notin {"main_load", "main_with", "main_convert", "main_save"}
        /\ PdfNamed(args.dst) => doc.format \in {"none", "PDF", "truncated"}
        /\ ~PdfNamed(args.dst) =>
              /\ pc \notin {"load", "filter", "save"}
              /\ files = <<>> /\ calls = <<>>
              /\ doc.format # "PDF"

C10_Witness ==
    /\ entry = "main" /\ pc = "done" /\ result = "ValueError"
    /\ args.dst = <<"O",".","P","d","F">> /\ args.quality = "90"
    /\ Len(args.src) = 1
====
